---- MODULE Spec2Model ----
(***************************************************************************)
(* A model of restic's SFTP backend (src/restic/backend/sftp/sftp.go):     *)
(* the subprocess and its exit signal, the path layout, the store          *)
(* operations on the remote file system, the lister, Open/Create and       *)
(* Close.  Every remote request (Lstat, Mkdir, OpenFile, write, ...) is    *)
(* one atomic step; the Go code between two requests belongs to the step   *)
(* of the request before it.                                               *)
(***************************************************************************)
EXTENDS Integers, Sequences, FiniteSets, TLC

VARIABLES
    work,       \* the workload of this run: the handles its callers use
    limit,      \* the workload of this run: how many operations they start
    fs,         \* the remote file system: path -> entry
    proc,       \* the subprocess: "none" | "running" | "zombie" | "reaped"
    exitErr,    \* the error cmd.Wait() returns for this subprocess
    waitPc,     \* the wait goroutine: "none" | "wait" | "send" | "done"
    result,     \* the channel r.result (capacity 1), as a sequence
    connClosed, \* r.c.Close() was called on the session
    pc,         \* per caller: position in its current operation
    op,         \* per caller: the operation and its arguments
    stk,        \* per caller: the mkdirAll recursion, innermost frame last
    wr,         \* per caller: bytes io.Copy has written so far
    fi,         \* per caller: the mode the last Lstat of Save returned
    ret,        \* per caller: what the operation returned
    nops,       \* operations started so far
    intent,     \* history, per path: the bytes its creating Save was given
    saved,      \* history, per path: the bytes of the Save that succeeded on it
    nsucc,      \* history, per path: how many Saves on it returned nil
    chk,        \* history, per caller: what the health check of its operation saw
    cfg,        \* the Config that Open or Create was given
    idx,        \* Open, Create, List: the position in the loop over paths or dirs
    dirs,       \* List: the names of the first-level listing, in the server's order
    items,      \* List: the names still to send
    out,        \* List: how often each name was received from the channel
    done        \* List: the caller has closed the channel done

(***************************************************************************)
(* Bounds of the model.                                                    *)
(***************************************************************************)
MaxOps == 3
MaxRaceOps == 4
MaxLen == 2
MaxDepth == 5
MaxListOps == 5

Procs == {1, 2, 3}

(***************************************************************************)
(* Errors.  An error is the sequence of its wrapping layers, outermost     *)
(* first; nil is the empty sequence.                                       *)
(***************************************************************************)
Nil == << >>

\* errors.Wrap: nil stays nil
Wrap(err, msg) == IF err = Nil THEN Nil ELSE <<msg>> \o err

\* errors.Cause: the innermost error
Cause(err) == IF err = Nil THEN Nil ELSE <<err[Len(err)]>>

\* errors.New / errors.Errorf
NewErr(msg) == <<msg>>

\* what pkg/sftp returns for SSH_FX_NO_SUCH_FILE (normalised to os.ErrNotExist)
ErrNotExist == <<"os.ErrNotExist">>

\* what pkg/sftp returns for any other failed request
ErrFailure == <<"sftp.StatusError">>

\* what pkg/sftp returns once the pipes to the subprocess are gone
ErrConn == <<"connection lost">>

\* os.IsNotExist
OsIsNotExist(err) == err = ErrNotExist

\* a *sftp.StatusError carrying the server's SSH_FX_NO_SUCH_FILE, as it is
\* before pkg/sftp normalises it
ErrNoSuchFile == <<"sftp: \"No such file\" (SSH_FX_NO_SUCH_FILE)">>

\* SFTP.IsNotExist: the error itself (no errors.Cause) is a *sftp.StatusError
\* with the text of SSH_FX_NO_SUCH_FILE
IsNotExist(err) == err = ErrNoSuchFile

(***************************************************************************)
(* Handles and the path layout.  A name is a sequence of characters, a     *)
(* path a sequence of components, a component a sequence of characters     *)
(* (the fixed directory names are one symbol each).  The empty path is     *)
(* ".", the directory the remote session starts in.                        *)
(***************************************************************************)
ConfigFile == "config"
DataFile == "data"
SnapshotFile == "snapshot"
IndexFile == "index"
LockFile == "lock"
KeyFile == "key"

FileTypes == {DataFile, KeyFile, LockFile, SnapshotFile, IndexFile, ConfigFile}

Handle(t, n) == [Type |-> t, Name |-> n]

\* restic.Handle.Valid
Valid(h) ==
    IF h.Type \notin FileTypes THEN NewErr("invalid Type")
    ELSE IF h.Type = ConfigFile THEN Nil
    ELSE IF h.Name = << >> THEN NewErr("invalid Name")
    ELSE Nil

\* backend.Paths
PathsData == <<"data">>
PathsSnapshots == <<"snapshots">>
PathsIndex == <<"index">>
PathsLocks == <<"locks">>
PathsKeys == <<"keys">>
PathsTemp == <<"tmp">>
PathsConfig == <<"config">>

\* cfg.Path, the root of the repository (a relative path of one component)
CfgPath == << <<"repo">> >>

RECURSIVE Clean(_)
\* path.Clean on a component sequence: empty components vanish
Clean(p) ==
    IF p = << >> THEN << >>
    ELSE IF Head(p) = << >> THEN Clean(Tail(p))
    ELSE <<Head(p)>> \o Clean(Tail(p))

\* Join: path.Clean(path.Join(parts...)) for a directory and one more component
Join(dir, c) == Clean(dir \o <<c>>)

\* path.Dir: "." for a path of one component, and for "." itself
Dir(p) == IF Len(p) <= 1 THEN << >> ELSE SubSeq(p, 1, Len(p) - 1)

\* SFTP.dirname
dirname(h) ==
    LET n == CASE h.Type = DataFile ->
                     IF Len(h.Name) > 2
                     THEN <<PathsData, SubSeq(h.Name, 1, 2)>>
                     ELSE <<PathsData>>
               [] h.Type = SnapshotFile -> <<PathsSnapshots>>
               [] h.Type = IndexFile -> <<PathsIndex>>
               [] h.Type = LockFile -> <<PathsLocks>>
               [] h.Type = KeyFile -> <<PathsKeys>>
               [] OTHER -> << >>
    IN  Clean(CfgPath \o n)

\* filename with the shard directory forgotten
filenameNoShard(h) ==
    IF h.Type = ConfigFile THEN Join(CfgPath, PathsConfig)
    ELSE Join(dirname(Handle(h.Type, << >>)), h.Name)

\* SFTP.filename
filename(h) ==
    IF h.Type = ConfigFile THEN Join(CfgPath, PathsConfig)
    ELSE Join(dirname(h), h.Name)

\* backend.DefaultLayout.Dirname (the default path layout of the spec, 4.2)
LayoutDirname(h) ==
    LET typeDir == CASE h.Type = DataFile -> PathsData
                     [] h.Type = SnapshotFile -> PathsSnapshots
                     [] h.Type = IndexFile -> PathsIndex
                     [] h.Type = LockFile -> PathsLocks
                     [] h.Type = KeyFile -> PathsKeys
                     [] OTHER -> << >>
        base == Join(CfgPath, typeDir)
    IN  IF h.Type = DataFile /\ Len(h.Name) > 2
        THEN Join(base, SubSeq(h.Name, 1, 2))
        ELSE base

\* backend.DefaultLayout.Filename (the default path layout of the spec, 4.2)
Filename(h) ==
    IF h.Type = ConfigFile THEN Join(CfgPath, PathsConfig)
    ELSE Join(LayoutDirname(h), h.Name)

\* paths(dir): the skeleton Open requires and Create makes
paths(dir) ==
    << dir, Join(dir, PathsData), Join(dir, PathsSnapshots), Join(dir, PathsIndex),
       Join(dir, PathsLocks), Join(dir, PathsKeys), Join(dir, PathsTemp) >>


(***************************************************************************)
(* The handles callers use, and the paths they reach.                      *)
(***************************************************************************)
NameAB == <<"a", "b">>
NameABC == <<"a", "b", "c">>
NameABD == <<"a", "b", "d">>
NameCDE == <<"c", "d", "e">>

DataHandles == {Handle(DataFile, n) : n \in {NameAB, NameABC, NameABD, NameCDE}}

ValidHandles ==
    DataHandles \cup {Handle(ConfigFile, << >>)}
    \cup {Handle(t, NameABC) : t \in {SnapshotFile, IndexFile, LockFile, KeyFile}}

InvalidHandles == {Handle(DataFile, << >>), Handle("bogus", NameABC)}

AllHandles == ValidHandles \cup InvalidHandles

Prefixes(p) == {SubSeq(p, 1, k) : k \in 0..Len(p)}

\* the names of the temporary files of the callers, one each
TempNames == << <<"t", "1">>, <<"t", "2">>, <<"t", "3">> >>

\* the temporary file of caller p, in the tmp directory of the repository
TempPath(p) == Join(Join(CfgPath, PathsTemp), TempNames[p])

PathUniverse ==
    UNION {Prefixes(filename(h)) \cup Prefixes(Filename(h)) : h \in AllHandles}
    \cup {paths(CfgPath)[i] : i \in 1..Len(paths(CfgPath))}
    \cup {TempPath(p) : p \in 1..Len(TempNames)}

\* a byte sequence of n bytes, no two neighbours equal; k picks the sequence
Pattern(n, k) == [i \in 1..n |-> ((i + k) % 3) + 1]

\* the byte sequences callers save: the empty one and three of MaxLen bytes
Payloads == {<< >>} \cup {Pattern(MaxLen, k) : k \in 0..2}

NoData == <<0>>

IsPrefix(s, t) == Len(s) <= Len(t) /\ SubSeq(t, 1, Len(s)) = s

(***************************************************************************)
(* The remote file system behind the session: what the server answers to   *)
(* each request of pkg/sftp.                                               *)
(***************************************************************************)
NoEntry == [kind |-> "none", data |-> << >>, mode |-> 0, ino |-> 0]
DirEntry(m) == [kind |-> "dir", data |-> << >>, mode |-> m, ino |-> 0]
FileEntry(d, m, i) == [kind |-> "file", data |-> d, mode |-> m, ino |-> i]

\* backend.Modes.Dir (0700)
ModesDir == 448
\* the mode the server gives a directory it makes (0755)
MkdirMode == 493
\* the modes the server may give a file it creates (0644, 0666: its umask)
CreateModes == {420, 438}
\* the write-permission bits Save strips (0222)
WriteBits == 146

RECURSIVE AndNot(_, _)
\* mode &^ bits, bit by bit: fi.Mode() & os.FileMode(^uint32(bits))
AndNot(mode, bits) ==
    IF mode = 0 THEN 0
    ELSE (mode % 2) * (1 - (bits % 2)) + 2 * AndNot(mode \div 2, bits \div 2)

\* the session answers requests: the subprocess runs and the client is open
Up == proc = "running" /\ ~connClosed

Children(d) ==
    {q \in PathUniverse : Len(q) = Len(d) + 1 /\ Dir(q) = d /\ q # d /\ fs[q].kind # "none"}

\* c.Lstat
LstatErr(path) ==
    IF ~Up THEN ErrConn
    ELSE IF fs[path].kind = "none" THEN ErrNotExist
    ELSE Nil

\* c.Mkdir
MkdirErr(path) ==
    IF ~Up THEN ErrConn
    ELSE IF fs[path].kind # "none" \/ fs[Dir(path)].kind # "dir" THEN ErrFailure
    ELSE Nil

\* c.Chmod
ChmodErr(path) ==
    IF ~Up THEN ErrConn
    ELSE IF fs[path].kind = "none" THEN ErrNotExist
    ELSE Nil

\* OpenFile without os.O_EXCL: an existing file is opened
OpenFileErrNoExcl(path) ==
    IF ~Up THEN ErrConn
    ELSE IF fs[path].kind = "dir" THEN ErrFailure
    ELSE IF fs[Dir(path)].kind # "dir" THEN ErrNotExist
    ELSE Nil

\* c.OpenFile(path, os.O_CREATE|os.O_EXCL|os.O_WRONLY)
OpenFileErr(path) ==
    IF ~Up THEN ErrConn
    ELSE IF fs[path].kind # "none" THEN ErrFailure
    ELSE IF fs[Dir(path)].kind # "dir" THEN ErrNotExist
    ELSE Nil

\* c.Remove: unlink, and rmdir when the entry is a directory
RemoveErr(path) ==
    IF ~Up THEN ErrConn
    ELSE IF fs[path].kind = "none" THEN ErrNotExist
    ELSE IF fs[path].kind = "dir" /\ (Children(path) # {} \/ path = << >>) THEN ErrFailure
    ELSE Nil

\* what a server may do with a rename onto an existing file: SSH_FXP_RENAME
\* leaves it to the server, which refuses it or, renaming as POSIX does,
\* replaces the file
RenameOverwrites == BOOLEAN

\* c.Rename(old, new) on a server that replaces an existing file or does not
RenameErr(old, new, replace) ==
    IF ~Up THEN ErrConn
    ELSE IF fs[old].kind = "none" \/ fs[Dir(new)].kind # "dir" THEN ErrNotExist
    ELSE IF fs[new].kind = "dir" THEN ErrFailure
    ELSE IF fs[new].kind = "file" /\ ~replace THEN ErrFailure
    ELSE Nil

\* c.Open (read only)
OpenErr(path) ==
    IF ~Up THEN ErrConn
    ELSE IF fs[path].kind = "none" THEN ErrNotExist
    ELSE Nil

(***************************************************************************)
(* State after Create and Open: the skeleton exists, the subprocess runs   *)
(* and its wait goroutine waits.                                           *)
(***************************************************************************)
sessVars == <<proc, exitErr, waitPc, result, connClosed>>
callVars == <<pc, op, stk, wr, fi, ret, nops>>
histVars == <<intent, saved, nsucc, chk>>
loadVars == <<work, limit>>
lifeVars == <<cfg, idx, dirs, items, out, done>>
vars == <<loadVars, lifeVars, fs, sessVars, callVars, histVars>>

Skeleton ==
    [q \in PathUniverse |->
        IF q = << >> THEN DirEntry(MkdirMode)
        ELSE IF \E i \in 1..Len(paths(CfgPath)) : paths(CfgPath)[i] = q THEN DirEntry(ModesDir)
        ELSE NoEntry]

NoOp == [kind |-> "none", h |-> Handle(ConfigFile, << >>), data |-> << >>,
         length |-> 0, offset |-> 0]
\* what an operation returns: its error, and the bytes (Load), the size (Stat)
\* or the answer (Test)
NoRet == [err |-> Nil, val |-> << >>, size |-> 0, found |-> FALSE]
NoChk == [dead |-> FALSE, err |-> Nil, had |-> NoEntry]

\* the errors cmd.Wait() may return: nil after exit status 0, an ExitError otherwise
ExitErrors == {Nil, <<"exit status 255">>}

InitSession ==
    /\ proc = "running"
    /\ exitErr \in ExitErrors
    /\ waitPc = "wait"
    /\ result = << >>
    /\ connClosed = FALSE

InitCallers ==
    /\ pc = [p \in Procs |-> "idle"]
    /\ op = [p \in Procs |-> NoOp]
    /\ stk = [p \in Procs |-> << >>]
    /\ wr = [p \in Procs |-> 0]
    /\ fi = [p \in Procs |-> 0]
    /\ ret = [p \in Procs |-> NoRet]
    /\ nops = 0
    /\ chk = [p \in Procs |-> NoChk]

InitHistory ==
    /\ intent = [q \in PathUniverse |-> NoData]
    /\ saved = [q \in PathUniverse |-> NoData]
    /\ nsucc = [q \in PathUniverse |-> 0]

\* Config: the command to run instead of ssh, the name of the layout
Config(c, l) == [Command |-> c, Layout |-> l]
DefaultConfig == Config("", "default")

\* the last components of all paths: what ReadDir can name
ListNames == {q[Len(q)] : q \in PathUniverse \ {<< >>}}

InitLife ==
    /\ cfg = DefaultConfig
    /\ idx = 0
    /\ dirs = << >>
    /\ items = {}
    /\ out = [n \in ListNames |-> 0]
    /\ done = FALSE

\* an opened backend on a fresh repository, its callers idle
InitStore ==
    /\ fs = Skeleton
    /\ InitLife
    /\ InitSession
    /\ InitCallers
    /\ InitHistory

(***************************************************************************)
(* The subprocess and the wait goroutine of startClient.                   *)
(***************************************************************************)
\* the subprocess exits on its own (the connection drops, the server quits)
ProcExit ==
    /\ proc = "running"
    /\ proc' = "zombie"
    /\ UNCHANGED <<loadVars, lifeVars, fs, exitErr, waitPc, result, connClosed, callVars, histVars>>

\* startClient's goroutine: cmd.Wait() returns once the subprocess has exited
WaitReturns ==
    /\ waitPc = "wait"
    /\ proc = "zombie"
    /\ proc' = "reaped"
    /\ waitPc' = "send"
    /\ UNCHANGED <<loadVars, lifeVars, fs, exitErr, result, connClosed, callVars, histVars>>

\* startClient's goroutine: ch <- errors.Wrap(err, "cmd.Wait")
WaitSend ==
    /\ waitPc = "send"
    /\ Len(result) < 1
    /\ result' = Append(result, Wrap(exitErr, "cmd.Wait"))
    /\ waitPc' = "done"
    /\ UNCHANGED <<loadVars, lifeVars, fs, proc, exitErr, connClosed, callVars, histVars>>

(***************************************************************************)
(* clientError: a non-blocking receive from r.result.                      *)
(***************************************************************************)
\* the value clientError returns now
clientError == IF result # << >> THEN Head(result) ELSE Nil

\* r.result after clientError ran
clientErrorChan == IF result # << >> THEN Tail(result) ELSE result

\* for the history: what the health check of an operation saw (whether the wait
\* goroutine had sent, what clientError returned) and the saved entry, if any,
\* that lay at its path when it began
Checked(path) ==
    [dead |-> waitPc = "done", err |-> clientError,
     had |-> IF saved[path] # NoData THEN fs[path] ELSE NoEntry]

\* a caller may start an operation
MayBegin(p) == pc[p] \in {"idle", "done"} /\ nops < limit

\* the caller's frame for a fresh operation o, returning r or going on at stage st
Started(p, o, r, st) ==
    /\ op' = [op EXCEPT ![p] = o]
    /\ nops' = nops + 1
    /\ wr' = [wr EXCEPT ![p] = 0]
    /\ fi' = [fi EXCEPT ![p] = 0]
    /\ IF r.err # Nil
       THEN pc' = [pc EXCEPT ![p] = "done"] /\ ret' = [ret EXCEPT ![p] = r]
       ELSE pc' = [pc EXCEPT ![p] = st] /\ ret' = [ret EXCEPT ![p] = NoRet]

\* the operation of p returns r
Returns(p, r) ==
    /\ pc' = [pc EXCEPT ![p] = "done"]
    /\ ret' = [ret EXCEPT ![p] = r]

Fail(e) == [NoRet EXCEPT !.err = e]

(***************************************************************************)
(* mkdirAll, one frame of the recursion per element of stk[p].  A frame    *)
(* is at "lstat1" (the first Lstat), "rec" (waiting for the call on its    *)
(* parent), "mkdir", "lstat2" or "chmod".                                  *)
(***************************************************************************)
Frame(d, st) == [dir |-> d, st |-> st]
Top(p) == stk[p][Len(stk[p])]
SetTop(p, st) == [stk[p] EXCEPT ![Len(stk[p])] = Frame(Top(p).dir, st)]

ErrNotDir == NewErr("mkdirAll: entry exists but is not a directory")
ErrUnable == NewErr("mkdirAll: unable to create directories")

\* the innermost mkdirAll of p returns v: to the frame that called it, or to the
\* operation (Save goes on to OpenFile, Create to its next path, renameFile to
\* its Lstat of the new name, only when mkdirAll returned nil)
MkReturn(p, v) ==
    IF Len(stk[p]) > 1
    THEN /\ stk' = [stk EXCEPT ![p] =
                       [i \in 1..(Len(stk[p]) - 1) |->
                           IF i = Len(stk[p]) - 1
                           THEN Frame(stk[p][i].dir, "mkdir")
                           ELSE stk[p][i]]]
         /\ UNCHANGED <<pc, ret>>
    ELSE /\ stk' = [stk EXCEPT ![p] = << >>]
         /\ IF v = Nil
            THEN /\ pc' = [pc EXCEPT ![p] =
                               IF op[p].kind = "Create" THEN "create_loop"
                               ELSE IF op[p].kind = "Rename" THEN "ren_guard"
                               ELSE "open"]
                 /\ UNCHANGED ret
            ELSE Returns(p, Fail(v))

\* fi, err := r.c.Lstat(dir), and the recursion on path.Dir(dir) when it fails
MkLstat(p) ==
    /\ pc[p] = "mkdirAll"
    /\ Top(p).st = "lstat1"
    /\ LET dir == Top(p).dir
           err == LstatErr(dir)
       IN  IF err = Nil
           THEN IF fs[dir].kind = "dir" THEN MkReturn(p, Nil) ELSE MkReturn(p, ErrNotDir)
           ELSE IF Len(stk[p]) < MaxDepth
           THEN /\ stk' = [stk EXCEPT ![p] = Append(SetTop(p, "rec"), Frame(Dir(dir), "lstat1"))]
                /\ UNCHANGED <<pc, ret>>
           ELSE \* the recursion does not end: the goroutine's stack overflows
                /\ pc' = [pc EXCEPT ![p] = "overflow"]
                /\ UNCHANGED <<stk, ret>>
    /\ UNCHANGED <<loadVars, lifeVars, fs, sessVars, op, wr, fi, nops, histVars>>

\* a Mkdir whose error is returned at once, without the second Lstat
MkMkdirStrict(p) ==
    /\ pc[p] = "mkdirAll"
    /\ Top(p).st = "mkdir"
    /\ LET dir == Top(p).dir
       IN  IF MkdirErr(dir) = Nil
           THEN /\ fs' = [fs EXCEPT ![dir] = DirEntry(MkdirMode)]
                /\ stk' = [stk EXCEPT ![p] = SetTop(p, "lstat2")]
                /\ UNCHANGED <<pc, ret>>
           ELSE /\ MkReturn(p, MkdirErr(dir))
                /\ UNCHANGED fs
    /\ UNCHANGED <<loadVars, lifeVars, sessVars, op, wr, fi, nops, histVars>>

\* errMkdir := r.c.Mkdir(dir)
MkMkdir(p) ==
    /\ pc[p] = "mkdirAll"
    /\ Top(p).st = "mkdir"
    /\ LET dir == Top(p).dir
       IN  fs' = IF MkdirErr(dir) = Nil
                 THEN [fs EXCEPT ![dir] = DirEntry(MkdirMode)]
                 ELSE fs
    /\ stk' = [stk EXCEPT ![p] = SetTop(p, "lstat2")]
    /\ UNCHANGED <<loadVars, lifeVars, sessVars, pc, op, wr, fi, ret, nops, histVars>>

\* fi, err = r.c.Lstat(dir) after the Mkdir, whatever the Mkdir returned
MkRestat(p) ==
    /\ pc[p] = "mkdirAll"
    /\ Top(p).st = "lstat2"
    /\ LET dir == Top(p).dir
       IN  IF LstatErr(dir) # Nil THEN MkReturn(p, ErrUnable)
           ELSE IF fs[dir].kind # "dir" THEN MkReturn(p, ErrNotDir)
           ELSE /\ stk' = [stk EXCEPT ![p] = SetTop(p, "chmod")]
                /\ UNCHANGED <<pc, ret>>
    /\ UNCHANGED <<loadVars, lifeVars, fs, sessVars, op, wr, fi, nops, histVars>>

\* return r.c.Chmod(dir, mode)
MkChmod(p) ==
    /\ pc[p] = "mkdirAll"
    /\ Top(p).st = "chmod"
    /\ LET dir == Top(p).dir
           err == ChmodErr(dir)
       IN  /\ fs' = IF err = Nil
                    THEN [fs EXCEPT ![dir] = [fs[dir] EXCEPT !.mode = ModesDir]]
                    ELSE fs
           /\ MkReturn(p, err)
    /\ UNCHANGED <<loadVars, lifeVars, sessVars, op, wr, fi, nops, histVars>>

mkdirAll(p) == MkLstat(p) \/ MkMkdir(p) \/ MkRestat(p) \/ MkChmod(p)

(***************************************************************************)
(* Save.                                                                   *)
(***************************************************************************)
SaveOp(h, b) == [kind |-> "Save", h |-> h, data |-> b, length |-> 0, offset |-> 0]

\* the mask with the owner's write bit left out (0022)
StripWriteGroupOther(mode) == AndNot(mode, WriteBits - 128)

\* fi.Mode() & os.FileMode(^uint32(0222))
StripWrite(mode) == AndNot(mode, WriteBits)

\* Save up to its first remote request: clientError, h.Valid, r.Filename(h)
SaveBegin(p, h, b) ==
    /\ MayBegin(p)
    /\ LET e == IF clientError # Nil THEN clientError ELSE Valid(h)
       IN  /\ Started(p, SaveOp(h, b), Fail(e),
                      IF h.Type = DataFile THEN "mkdirAll" ELSE "open")
           /\ stk' = [stk EXCEPT ![p] =
                         IF e = Nil /\ h.Type = DataFile
                         THEN <<Frame(Dir(Filename(h)), "lstat1")>>
                         ELSE << >>]
    /\ result' = clientErrorChan
    /\ chk' = [chk EXCEPT ![p] = Checked(Filename(h))]
    /\ UNCHANGED <<loadVars, lifeVars, fs, proc, exitErr, waitPc, connClosed, intent, saved, nsucc>>

\* f, err := r.c.OpenFile(filename, os.O_CREATE|os.O_EXCL|os.O_WRONLY)
SaveOpen(p) ==
    /\ pc[p] = "open"
    /\ op[p].kind = "Save"
    /\ LET path == Filename(op[p].h)
           err == OpenFileErr(path)
       IN  IF err # Nil
           THEN /\ Returns(p, Fail(Wrap(err, "OpenFile")))
                /\ UNCHANGED <<fs, intent>>
           ELSE /\ \E m \in CreateModes :
                       fs' = [fs EXCEPT ![path] = FileEntry(<< >>, m, p)]
                /\ intent' = [intent EXCEPT ![path] = op[p].data]
                /\ pc' = [pc EXCEPT ![p] = IF op[p].data = << >> THEN "close" ELSE "copy"]
                /\ UNCHANGED ret
    /\ UNCHANGED <<loadVars, lifeVars, sessVars, op, stk, wr, fi, nops, saved, nsucc, chk>>

\* io.Copy(f, rd): one write request; it reaches the file p created while that
\* file is still the entry at the path
SaveCopy(p) ==
    /\ pc[p] = "copy"
    /\ Up
    /\ LET path == Filename(op[p].h)
           byte == op[p].data[wr[p] + 1]
       IN  fs' = IF fs[path].kind = "file" /\ fs[path].ino = p
                 THEN [fs EXCEPT ![path] = [fs[path] EXCEPT !.data = Append(fs[path].data, byte)]]
                 ELSE fs
    /\ wr' = [wr EXCEPT ![p] = wr[p] + 1]
    /\ pc' = [pc EXCEPT ![p] = IF wr[p] + 1 = Len(op[p].data) THEN "close" ELSE "copy"]
    /\ UNCHANGED <<loadVars, lifeVars, sessVars, op, stk, fi, ret, nops, histVars>>

\* io.Copy fails (the reader, the write request or the session): f.Close() and
\* return; what was written stays
SaveCopyFail(p) ==
    /\ pc[p] = "copy"
    /\ Returns(p, Fail(Wrap(IF Up THEN ErrFailure ELSE ErrConn, "Write")))
    /\ UNCHANGED <<loadVars, lifeVars, fs, sessVars, op, stk, wr, fi, nops, histVars>>

\* err = f.Close()
SaveClose(p) ==
    /\ pc[p] = "close"
    /\ IF Up
       THEN pc' = [pc EXCEPT ![p] = "lstat"] /\ UNCHANGED ret
       ELSE Returns(p, Fail(Wrap(ErrConn, "Close")))
    /\ UNCHANGED <<loadVars, lifeVars, fs, sessVars, op, stk, wr, fi, nops, histVars>>

\* fi, err := r.c.Lstat(filename)
SaveLstat(p) ==
    /\ pc[p] = "lstat"
    /\ LET path == Filename(op[p].h)
           err == LstatErr(path)
       IN  IF err # Nil
           THEN Returns(p, Fail(Wrap(err, "Lstat"))) /\ UNCHANGED fi
           ELSE /\ fi' = [fi EXCEPT ![p] = fs[path].mode]
                /\ pc' = [pc EXCEPT ![p] = "chmod"]
                /\ UNCHANGED ret
    /\ UNCHANGED <<loadVars, lifeVars, fs, sessVars, op, stk, wr, nops, histVars>>

\* err = r.c.Chmod(filename, fi.Mode()&os.FileMode(^uint32(0222))); return Wrap(err)
SaveChmod(p) ==
    /\ pc[p] = "chmod"
    /\ LET path == Filename(op[p].h)
           err == ChmodErr(path)
       IN  /\ fs' = IF err = Nil
                    THEN [fs EXCEPT ![path] = [fs[path] EXCEPT !.mode = StripWrite(fi[p])]]
                    ELSE fs
           /\ Returns(p, Fail(Wrap(err, "Chmod")))
           /\ saved' = IF err = Nil THEN [saved EXCEPT ![path] = op[p].data] ELSE saved
           /\ nsucc' = IF err = Nil THEN [nsucc EXCEPT ![path] = nsucc[path] + 1] ELSE nsucc
    /\ UNCHANGED <<loadVars, lifeVars, sessVars, op, stk, wr, fi, nops, intent, chk>>

(***************************************************************************)
(* Load, Stat, Test, Remove.                                               *)
(***************************************************************************)
LoadOp(h, length, offset) ==
    [kind |-> "Load", h |-> h, data |-> << >>, length |-> length, offset |-> offset]
StatOp(h) == [kind |-> "Stat", h |-> h, data |-> << >>, length |-> 0, offset |-> 0]
TestOp(h) == [kind |-> "Test", h |-> h, data |-> << >>, length |-> 0, offset |-> 0]
RemoveOp(h) == [kind |-> "Remove", h |-> h, data |-> << >>, length |-> 0, offset |-> 0]

Min(a, b) == IF a < b THEN a ELSE b

\* a reader whose limit counts from the start of the file, not from the offset
StreamAbsolute(data, length, offset) ==
    IF length > 0 THEN SubSeq(data, offset + 1, Min(length, Len(data)))
    ELSE SubSeq(data, offset + 1, Len(data))

\* what reading the stream Load returns yields, up to end-of-stream: the file
\* from the offset on (f.Seek), cut by backend.LimitReadCloser when length > 0
Stream(data, length, offset) ==
    LET rest == SubSeq(data, offset + 1, Len(data))
    IN  IF length > 0 THEN SubSeq(rest, 1, Min(length, Len(rest))) ELSE rest

\* Load(h, length, offset), read to the end by the caller
LoadResult(h, length, offset) ==
    IF Valid(h) # Nil THEN Fail(Valid(h))
    ELSE IF offset < 0 THEN Fail(NewErr("offset is negative"))
    ELSE IF OpenErr(filename(h)) # Nil THEN Fail(OpenErr(filename(h)))
    ELSE IF fs[filename(h)].kind # "file" THEN Fail(ErrFailure)
    ELSE [NoRet EXCEPT !.val = Stream(fs[filename(h)].data, length, offset)]

Load(p, h, length, offset) ==
    /\ MayBegin(p)
    /\ op' = [op EXCEPT ![p] = LoadOp(h, length, offset)]
    /\ nops' = nops + 1
    /\ Returns(p, LoadResult(h, length, offset))
    /\ chk' = [chk EXCEPT ![p] = NoChk]
    /\ UNCHANGED <<loadVars, lifeVars, fs, sessVars, stk, wr, fi, intent, saved, nsucc>>

\* Stat up to its remote request: clientError, h.Valid
StatBegin(p, h) ==
    /\ MayBegin(p)
    /\ Started(p, StatOp(h), Fail(IF clientError # Nil THEN clientError ELSE Valid(h)), "stat")
    /\ result' = clientErrorChan
    /\ chk' = [chk EXCEPT ![p] = Checked(filename(h))]
    /\ UNCHANGED <<loadVars, lifeVars, fs, proc, exitErr, waitPc, connClosed, stk, intent, saved, nsucc>>

\* fi, err := r.c.Lstat(r.filename(h)); return FileInfo{Size: fi.Size()}
StatResult(h) ==
    IF LstatErr(filename(h)) # Nil THEN Fail(Wrap(LstatErr(filename(h)), "Lstat"))
    ELSE [NoRet EXCEPT !.size = Len(fs[filename(h)].data)]

StatReq(p) ==
    /\ pc[p] = "stat"
    /\ Returns(p, StatResult(op[p].h))
    /\ UNCHANGED <<loadVars, lifeVars, fs, sessVars, op, stk, wr, fi, nops, histVars>>

\* Test up to its remote request: clientError
TestBegin(p, h) ==
    /\ MayBegin(p)
    /\ Started(p, TestOp(h), Fail(clientError), "test")
    /\ result' = clientErrorChan
    /\ chk' = [chk EXCEPT ![p] = Checked(filename(h))]
    /\ UNCHANGED <<loadVars, lifeVars, fs, proc, exitErr, waitPc, connClosed, stk, intent, saved, nsucc>>

\* _, err := r.c.Lstat(r.filename(h)) and its classification
TestResult(h) ==
    LET err == LstatErr(filename(h))
    IN  IF OsIsNotExist(Cause(err)) THEN NoRet
        ELSE IF err # Nil THEN Fail(Wrap(err, "Lstat"))
        ELSE [NoRet EXCEPT !.found = TRUE]

TestReq(p) ==
    /\ pc[p] = "test"
    /\ Returns(p, TestResult(op[p].h))
    /\ UNCHANGED <<loadVars, lifeVars, fs, sessVars, op, stk, wr, fi, nops, histVars>>

\* Remove up to its remote request: clientError
RemoveBegin(p, h) ==
    /\ MayBegin(p)
    /\ Started(p, RemoveOp(h), Fail(clientError), "remove")
    /\ result' = clientErrorChan
    /\ chk' = [chk EXCEPT ![p] = Checked(filename(h))]
    /\ UNCHANGED <<loadVars, lifeVars, fs, proc, exitErr, waitPc, connClosed, stk, intent, saved, nsucc>>

\* return r.c.Remove(r.filename(h))
RemoveReq(p) ==
    /\ pc[p] = "remove"
    /\ LET path == filename(op[p].h)
           err == RemoveErr(path)
       IN  /\ fs' = IF err = Nil THEN [fs EXCEPT ![path] = NoEntry] ELSE fs
           /\ Returns(p, Fail(err))
           /\ intent' = IF err = Nil THEN [intent EXCEPT ![path] = NoData] ELSE intent
           /\ saved' = IF err = Nil THEN [saved EXCEPT ![path] = NoData] ELSE saved
    /\ UNCHANGED <<loadVars, lifeVars, sessVars, op, stk, wr, fi, nops, nsucc, chk>>

(***************************************************************************)
(* renameFile(oldname, h): the caller has written its temporary file; the  *)
(* call moves it to the final name of h.                                   *)
(***************************************************************************)
RenameOp(h, b) == [kind |-> "Rename", h |-> h, data |-> b, length |-> 0, offset |-> 0]

\* the caller's temporary file holds b; filename := r.filename(h), and mkdirAll
\* of its directory for a Data handle (no health check, no h.Valid)
RenameBegin(p, h, b) ==
    /\ MayBegin(p)
    /\ Up
    /\ Started(p, RenameOp(h, b), NoRet,
               IF h.Type = DataFile THEN "mkdirAll" ELSE "ren_guard")
    /\ stk' = [stk EXCEPT ![p] =
                  IF h.Type = DataFile
                  THEN <<Frame(Dir(filename(h)), "lstat1")>>
                  ELSE << >>]
    /\ \E m \in CreateModes :
           fs' = [fs EXCEPT ![TempPath(p)] = FileEntry(b, m, p)]
    /\ chk' = [chk EXCEPT ![p] =
                  [NoChk EXCEPT !.had = IF saved[filename(h)] # NoData
                                        THEN fs[filename(h)] ELSE NoEntry]]
    /\ UNCHANGED <<loadVars, lifeVars, sessVars, intent, saved, nsucc>>

\* if _, err := r.c.Lstat(filename); err == nil { return "already exists" }
RenGuard(p) ==
    /\ pc[p] = "ren_guard"
    /\ IF LstatErr(filename(op[p].h)) = Nil
       THEN Returns(p, Fail(NewErr("Close(): file already exists")))
       ELSE pc' = [pc EXCEPT ![p] = "ren_rename"] /\ UNCHANGED ret
    /\ UNCHANGED <<loadVars, lifeVars, fs, sessVars, op, stk, wr, fi, nops, histVars>>

\* err := r.c.Rename(oldname, filename)
RenRename(p) ==
    /\ pc[p] = "ren_rename"
    /\ \E replace \in RenameOverwrites :
          LET old == TempPath(p)
              new == filename(op[p].h)
              err == RenameErr(old, new, replace)
          IN  IF err # Nil
              THEN /\ Returns(p, Fail(Wrap(err, "Rename")))
                   /\ UNCHANGED <<fs, intent>>
              ELSE /\ fs' = [fs EXCEPT ![new] = fs[old], ![old] = NoEntry]
                   /\ intent' = [intent EXCEPT ![new] = fs[old].data]
                   /\ pc' = [pc EXCEPT ![p] = "ren_lstat"]
                   /\ UNCHANGED ret
    /\ UNCHANGED <<loadVars, lifeVars, sessVars, op, stk, wr, fi, nops, saved, nsucc, chk>>

\* fi, err := r.c.Lstat(filename)
RenLstat(p) ==
    /\ pc[p] = "ren_lstat"
    /\ LET path == filename(op[p].h)
           err == LstatErr(path)
       IN  IF err # Nil
           THEN Returns(p, Fail(Wrap(err, "Lstat"))) /\ UNCHANGED fi
           ELSE /\ fi' = [fi EXCEPT ![p] = fs[path].mode]
                /\ pc' = [pc EXCEPT ![p] = "ren_chmod"]
                /\ UNCHANGED ret
    /\ UNCHANGED <<loadVars, lifeVars, fs, sessVars, op, stk, wr, nops, histVars>>

\* err = r.c.Chmod(filename, fi.Mode()&os.FileMode(^uint32(0222))); return Wrap(err)
RenChmod(p) ==
    /\ pc[p] = "ren_chmod"
    /\ LET path == filename(op[p].h)
           err == ChmodErr(path)
       IN  /\ fs' = IF err = Nil
                    THEN [fs EXCEPT ![path] = [fs[path] EXCEPT !.mode = StripWrite(fi[p])]]
                    ELSE fs
           /\ Returns(p, Fail(Wrap(err, "Chmod")))
           /\ saved' = IF err = Nil THEN [saved EXCEPT ![path] = op[p].data] ELSE saved
           /\ nsucc' = IF err = Nil THEN [nsucc EXCEPT ![path] = nsucc[path] + 1] ELSE nsucc
    /\ UNCHANGED <<loadVars, lifeVars, sessVars, op, stk, wr, fi, nops, intent, chk>>

renameFile(p) == RenGuard(p) \/ RenRename(p) \/ RenLstat(p) \/ RenChmod(p)

(***************************************************************************)
(* Close.                                                                  *)
(***************************************************************************)
LifeOp(kind, t) ==
    [kind |-> kind, h |-> Handle(t, << >>), data |-> << >>, length |-> 0, offset |-> 0]

\* os.Process.Kill on a process that was already waited for
ErrFinished == <<"os: process already finished">>
\* what cmd.Wait returns for a killed process
ErrKilled == <<"signal: killed">>

\* Close returns err: to the caller, or to Create, which goes on to Open(cfg)
\* when Close returned nil
CloseReturn(p, err) ==
    IF op[p].kind = "Create" /\ err = Nil
    THEN /\ op' = [op EXCEPT ![p] = LifeOp("Open", ConfigFile)]
         /\ pc' = [pc EXCEPT ![p] = "start"]
         /\ UNCHANGED ret
    ELSE /\ Returns(p, Fail(IF op[p].kind = "Create" THEN Wrap(err, "Close") ELSE err))
         /\ UNCHANGED op

\* a caller calls Close on the backend
CloseBegin(p) ==
    /\ MayBegin(p)
    /\ proc # "none"
    /\ Started(p, LifeOp("Close", ConfigFile), NoRet, "sess_close")
    /\ UNCHANGED <<loadVars, lifeVars, fs, sessVars, stk, histVars>>

\* err := r.c.Close()
CloseConn(p) ==
    /\ pc[p] = "sess_close"
    /\ connClosed' = TRUE
    /\ pc' = [pc EXCEPT ![p] = "select"]
    /\ UNCHANGED <<loadVars, lifeVars, fs, proc, exitErr, waitPc, result,
                   op, stk, wr, fi, ret, nops, histVars>>

\* select { case err := <-r.result: return err; case <-time.After(closeTimeout): }
CloseSelect(p) ==
    /\ pc[p] = "select"
    /\ \/ /\ result # << >>
          /\ result' = Tail(result)
          /\ CloseReturn(p, Head(result))
       \/ /\ pc' = [pc EXCEPT ![p] = "kill"]
          /\ UNCHANGED <<result, op, ret>>
    /\ UNCHANGED <<loadVars, lifeVars, fs, proc, exitErr, waitPc, connClosed,
                   stk, wr, fi, nops, histVars>>

\* if err := r.cmd.Process.Kill(); err != nil { return err }
CloseKill(p) ==
    /\ pc[p] = "kill"
    /\ IF proc = "reaped"
       THEN /\ CloseReturn(p, ErrFinished)
            /\ UNCHANGED <<proc, exitErr>>
       ELSE /\ proc' = "zombie"
            /\ exitErr' = IF proc = "running" THEN ErrKilled ELSE exitErr
            /\ pc' = [pc EXCEPT ![p] = "drain"]
            /\ UNCHANGED <<op, ret>>
    /\ UNCHANGED <<loadVars, lifeVars, fs, waitPc, result, connClosed,
                   stk, wr, fi, nops, histVars>>

\* <-r.result; return nil
CloseDrain(p) ==
    /\ pc[p] = "drain"
    /\ result # << >>
    /\ result' = Tail(result)
    /\ CloseReturn(p, Nil)
    /\ UNCHANGED <<loadVars, lifeVars, fs, proc, exitErr, waitPc, connClosed,
                   stk, wr, fi, nops, histVars>>

Close(p) == CloseConn(p) \/ CloseSelect(p) \/ CloseKill(p) \/ CloseDrain(p)

(***************************************************************************)
(* Open and Create, with startClient.                                      *)
(***************************************************************************)
\* a command with a quote that is never closed
BadCommand == "'"
Configs == {Config(c, l) : c \in {"", BadCommand}, l \in {"default", "bogus"}}

\* the error of buildSSHCommand: that of SplitShellArgs(cfg.Command)
buildSSHCommand(c) ==
    IF c.Command = BadCommand THEN NewErr("unterminated quoted string") ELSE Nil

\* the error of backend.ParseLayout(sftp, cfg.Layout, defaultLayout, cfg.Path)
ParseLayout(c) ==
    IF c.Layout = "default" THEN Nil ELSE NewErr("unknown backend layout")

\* Open(cfg) up to startClient
OpenBegin(p, c) ==
    /\ MayBegin(p)
    /\ proc = "none"
    /\ Started(p, LifeOp("Open", ConfigFile), Fail(buildSSHCommand(c)), "start")
    /\ cfg' = c
    /\ UNCHANGED <<loadVars, idx, dirs, items, out, done, fs, sessVars, stk, histVars>>

\* Create(cfg) up to startClient
CreateBegin(p, c) ==
    /\ MayBegin(p)
    /\ proc = "none"
    /\ Started(p, LifeOp("Create", ConfigFile), Fail(buildSSHCommand(c)), "start")
    /\ cfg' = c
    /\ UNCHANGED <<loadVars, idx, dirs, items, out, done, fs, sessVars, stk, histVars>>

\* startClient: cmd.Start() and the goroutine that waits for the subprocess
StartClient(p) ==
    /\ pc[p] = "start"
    /\ \/ /\ Returns(p, Fail(Wrap(<<"exec: not found">>, "cmd.Start")))
          /\ UNCHANGED sessVars
       \/ /\ proc' = "running"
          /\ exitErr' \in ExitErrors
          /\ waitPc' = "wait"
          /\ result' = << >>
          /\ connClosed' = FALSE
          /\ pc' = [pc EXCEPT ![p] = "handshake"]
          /\ UNCHANGED ret
    /\ UNCHANGED <<loadVars, lifeVars, fs, op, stk, wr, fi, nops, histVars>>

\* startClient: client, err := sftp.NewClientPipe(rd, wr); the program may
\* answer the handshake, or answer something else, or have exited
NewClientPipe(p) ==
    /\ pc[p] = "handshake"
    /\ \/ /\ Up
          /\ pc' = [pc EXCEPT ![p] = "layout"]
          /\ UNCHANGED ret
       \/ Returns(p, Fail(NewErr("unable to start the sftp session")))
    /\ UNCHANGED <<loadVars, lifeVars, fs, sessVars, op, stk, wr, fi, nops, histVars>>

\* sftp.Layout, err = backend.ParseLayout(...)
LayoutStep(p) ==
    /\ pc[p] = "layout"
    /\ IF ParseLayout(cfg) # Nil
       THEN /\ Returns(p, Fail(ParseLayout(cfg)))
            /\ UNCHANGED idx
       ELSE /\ pc' = [pc EXCEPT ![p] =
                         IF op[p].kind = "Create" THEN "create_lstat" ELSE "open_lstat"]
            /\ idx' = 1
            /\ UNCHANGED ret
    /\ UNCHANGED <<loadVars, cfg, dirs, items, out, done, fs, sessVars,
                   op, stk, wr, fi, nops, histVars>>

\* Open: for _, d := range paths(cfg.Path) { sftp.c.Lstat(d) }
OpenLstat(p) ==
    /\ pc[p] = "open_lstat"
    /\ IF LstatErr(paths(CfgPath)[idx]) # Nil
       THEN /\ Returns(p, Fail(NewErr("does not exist")))
            /\ UNCHANGED idx
       ELSE IF idx < Len(paths(CfgPath))
       THEN /\ idx' = idx + 1
            /\ UNCHANGED <<pc, ret>>
       ELSE /\ Returns(p, NoRet)
            /\ UNCHANGED idx
    /\ UNCHANGED <<loadVars, cfg, dirs, items, out, done, fs, sessVars,
                   op, stk, wr, fi, nops, histVars>>

\* Create: _, err = sftp.c.Lstat(Join(cfg.Path, backend.Paths.Config))
CreateLstat(p) ==
    /\ pc[p] = "create_lstat"
    /\ IF LstatErr(Join(CfgPath, PathsConfig)) = Nil
       THEN /\ Returns(p, Fail(NewErr("config file already exists")))
            /\ UNCHANGED stk
       ELSE /\ pc' = [pc EXCEPT ![p] = "mkdirAll"]
            /\ stk' = [stk EXCEPT ![p] = <<Frame(paths(CfgPath)[1], "lstat1")>>]
            /\ UNCHANGED ret
    /\ UNCHANGED <<loadVars, lifeVars, fs, sessVars, op, wr, fi, nops, histVars>>

\* Create: the next d of range paths(cfg.Path), and sftp.Close() after the last
CreateLoop(p) ==
    /\ pc[p] = "create_loop"
    /\ IF idx < Len(paths(CfgPath))
       THEN /\ idx' = idx + 1
            /\ pc' = [pc EXCEPT ![p] = "mkdirAll"]
            /\ stk' = [stk EXCEPT ![p] = <<Frame(paths(CfgPath)[idx + 1], "lstat1")>>]
       ELSE /\ pc' = [pc EXCEPT ![p] = "sess_close"]
            /\ UNCHANGED <<idx, stk>>
    /\ UNCHANGED <<loadVars, cfg, dirs, items, out, done, fs, sessVars,
                   op, wr, fi, ret, nops, histVars>>

(***************************************************************************)
(* List: the goroutine that reads the directories, and the caller that     *)
(* receives from its channel.  The channel is unbuffered: a send is the    *)
(* caller's receive.                                                       *)
(***************************************************************************)
\* c.ReadDir: its error, and the names it returns
ReadDirErr(path) ==
    IF ~Up THEN ErrConn
    ELSE IF fs[path].kind = "none" THEN ErrNotExist
    ELSE IF fs[path].kind # "dir" THEN ErrFailure
    ELSE Nil

ReadDirNames(path) == {q[Len(q)] : q \in Children(path)}

\* the orders in which a server may list the names S
Orders(S) ==
    {s \in [1..Cardinality(S) -> S] : \A i, j \in 1..Cardinality(S) : s[i] = s[j] => i = j}

\* List(t, done): the channel is made, the goroutine started
ListBegin(p, t) ==
    /\ MayBegin(p)
    /\ Started(p, LifeOp("List", t), NoRet,
               IF t = DataFile THEN "list_first" ELSE "list_entries")
    /\ idx' = 0
    /\ dirs' = << >>
    /\ items' = {}
    /\ out' = [n \in ListNames |-> 0]
    /\ done' = FALSE
    /\ UNCHANGED <<loadVars, cfg, fs, sessVars, stk, histVars>>

\* list1, err := r.c.ReadDir(basedir), and the names of its entries
ListFirst(p) ==
    /\ pc[p] = "list_first"
    /\ LET basedir == dirname(op[p].h)
       IN  IF ReadDirErr(basedir) # Nil
           THEN /\ pc' = [pc EXCEPT ![p] = "done"]
                /\ UNCHANGED dirs
           ELSE /\ dirs' \in Orders(ReadDirNames(basedir))
                /\ pc' = [pc EXCEPT ![p] = "list_dirs"]
    /\ UNCHANGED <<loadVars, cfg, idx, items, out, done, fs, sessVars,
                   op, stk, wr, fi, ret, nops, histVars>>

\* a failed ReadDir of one shard ends the listing
ListDirAbort(p) ==
    /\ pc[p] = "list_dirs"
    /\ IF idx >= Len(dirs)
       THEN /\ pc' = [pc EXCEPT ![p] = "done"]
            /\ UNCHANGED <<idx, items>>
       ELSE LET path == Join(dirname(op[p].h), dirs[idx + 1])
                found == IF ReadDirErr(path) # Nil THEN {} ELSE ReadDirNames(path)
            IN  /\ idx' = idx + 1
                /\ items' = found
                /\ pc' = [pc EXCEPT ![p] =
                             IF ReadDirErr(path) # Nil THEN "done"
                             ELSE IF found = {} THEN "list_dirs" ELSE "list_send"]
    /\ UNCHANGED <<loadVars, cfg, dirs, out, done, fs, sessVars,
                   op, stk, wr, fi, ret, nops, histVars>>

\* a failed ReadDir of one shard is tried again
ListDirRetry(p) ==
    /\ pc[p] = "list_dirs"
    /\ IF idx >= Len(dirs)
       THEN /\ pc' = [pc EXCEPT ![p] = "done"]
            /\ UNCHANGED <<idx, items>>
       ELSE LET path == Join(dirname(op[p].h), dirs[idx + 1])
                found == IF ReadDirErr(path) # Nil THEN {} ELSE ReadDirNames(path)
            IN  /\ idx' = IF ReadDirErr(path) # Nil THEN idx ELSE idx + 1
                /\ items' = found
                /\ pc' = [pc EXCEPT ![p] = IF found = {} THEN "list_dirs" ELSE "list_send"]
    /\ UNCHANGED <<loadVars, cfg, dirs, out, done, fs, sessVars,
                   op, stk, wr, fi, ret, nops, histVars>>

\* for _, dir := range dirs { entries, err := r.c.ReadDir(Join(basedir, dir)) },
\* a shard whose ReadDir fails is skipped; close(ch) after the last
ListDir(p) ==
    /\ pc[p] = "list_dirs"
    /\ IF idx >= Len(dirs)
       THEN /\ pc' = [pc EXCEPT ![p] = "done"]
            /\ UNCHANGED <<idx, items>>
       ELSE LET path == Join(dirname(op[p].h), dirs[idx + 1])
                found == IF ReadDirErr(path) # Nil THEN {} ELSE ReadDirNames(path)
            IN  /\ idx' = idx + 1
                /\ items' = found
                /\ pc' = [pc EXCEPT ![p] = IF found = {} THEN "list_dirs" ELSE "list_send"]
    /\ UNCHANGED <<loadVars, cfg, dirs, out, done, fs, sessVars,
                   op, stk, wr, fi, ret, nops, histVars>>

\* entries, err := r.c.ReadDir(r.dirname(restic.Handle{Type: t})) for the other types
ListEntries(p) ==
    /\ pc[p] = "list_entries"
    /\ LET path == dirname(op[p].h)
           found == IF ReadDirErr(path) # Nil THEN {} ELSE ReadDirNames(path)
       IN  /\ items' = found
           /\ pc' = [pc EXCEPT ![p] = IF found = {} THEN "done" ELSE "list_send"]
    /\ UNCHANGED <<loadVars, cfg, idx, dirs, out, done, fs, sessVars,
                   op, stk, wr, fi, ret, nops, histVars>>

\* ch <- file, without the case <-done
ListSendNoDone(p) ==
    /\ pc[p] = "list_send"
    /\ ~done
    /\ \E file \in items :
          /\ out' = [out EXCEPT ![file] = @ + 1]
          /\ items' = items \ {file}
          /\ pc' = [pc EXCEPT ![p] =
                       IF items \ {file} # {} THEN "list_send"
                       ELSE IF op[p].h.Type = DataFile THEN "list_dirs"
                       ELSE "done"]
    /\ UNCHANGED <<loadVars, cfg, idx, dirs, done, fs, sessVars,
                   op, stk, wr, fi, ret, nops, histVars>>

\* select { case ch <- file: case <-done: return }; a send is the caller's
\* receive, and the caller that has closed done receives no more
ListSend(p) ==
    /\ pc[p] = "list_send"
    /\ \/ /\ ~done
          /\ \E file \in items :
                /\ out' = [out EXCEPT ![file] = @ + 1]
                /\ items' = items \ {file}
                /\ pc' = [pc EXCEPT ![p] =
                             IF items \ {file} # {} THEN "list_send"
                             ELSE IF op[p].h.Type = DataFile THEN "list_dirs"
                             ELSE "done"]
       \/ /\ done
          /\ pc' = [pc EXCEPT ![p] = "done"]
          /\ UNCHANGED <<out, items>>
    /\ UNCHANGED <<loadVars, cfg, idx, dirs, done, fs, sessVars,
                   op, stk, wr, fi, ret, nops, histVars>>

\* the caller closes done before the listing ends
ListCancel(p) ==
    /\ pc[p] \in {"list_first", "list_dirs", "list_entries", "list_send"}
    /\ ~done
    /\ done' = TRUE
    /\ UNCHANGED <<loadVars, cfg, idx, dirs, items, out, fs, sessVars, callVars, histVars>>

\* the goroutine of List
ListTask(p) == ListFirst(p) \/ ListDir(p) \/ ListEntries(p) \/ ListSend(p)

List(p) == ListFirst(p) \/ ListDir(p) \/ ListEntries(p) \/ ListSend(p) \/ ListCancel(p)

(***************************************************************************)
(* Specifications.                                                         *)
(***************************************************************************)
SessionDies == ProcExit \/ WaitReturns \/ WaitSend

\* the handles concurrent Saves compete for: a sharded name, and a short name
\* whose file lies where the shard directory of the first would be
RaceHandles == {Handle(DataFile, NameABC), Handle(DataFile, NameAB)}

InitSaves ==
    /\ work = RaceHandles
    /\ limit = MaxRaceOps
    /\ InitStore
    /\ exitErr # Nil

\* concurrent callers that only save, each its own bytes, on a session that
\* stays up (a request that fails is SaveCopyFail)
NextSaves ==
    \/ \E p \in Procs :
          \/ \E h \in work : SaveBegin(p, h, Pattern(MaxLen, p))
          \/ mkdirAll(p)
          \/ SaveOpen(p) \/ SaveCopy(p) \/ SaveCopyFail(p)
          \/ SaveClose(p) \/ SaveLstat(p) \/ SaveChmod(p)

SpecSaves == InitSaves /\ [][NextSaves]_vars

\* the handles one caller uses: every collection type, a short Data name
SeqHandles ==
    {Handle(ConfigFile, << >>), Handle(DataFile, NameAB), Handle(DataFile, NameABC)}
    \cup {Handle(t, NameABC) : t \in {SnapshotFile, IndexFile, LockFile, KeyFile}}
    \cup InvalidHandles

\* a run works on one handle, or on the short and the sharded Data name
InitSeq ==
    /\ work \in {{h} : h \in SeqHandles} \cup {RaceHandles}
    /\ limit = MaxOps
    /\ InitStore

\* one caller, one operation after the other
NextSeq ==
    \/ SessionDies
    \/ \E h \in work :
          \/ \E b \in Payloads : SaveBegin(1, h, b)
          \/ Load(1, h, 0, 0)
          \/ StatBegin(1, h)
          \/ TestBegin(1, h)
          \/ RemoveBegin(1, h)
    \/ mkdirAll(1)
    \/ SaveOpen(1) \/ SaveCopy(1) \/ SaveCopyFail(1)
    \/ SaveClose(1) \/ SaveLstat(1) \/ SaveChmod(1)
    \/ StatReq(1) \/ TestReq(1) \/ RemoveReq(1)

SpecSeq == InitSeq /\ [][NextSeq]_vars

\* Close by caller 1 while the other callers run health checks (Test, Stat)
CloseHandles == {Handle(DataFile, NameABC)}

InitClose ==
    /\ work = CloseHandles
    /\ limit = MaxOps
    /\ InitStore

NextClose ==
    \/ SessionDies
    \/ CloseBegin(1)
    \/ Close(1)
    \/ \E p \in Procs \ {1} :
          \/ \E h \in work : TestBegin(p, h) \/ StatBegin(p, h)
          \/ TestReq(p) \/ StatReq(p)

SpecClose == InitClose /\ [][NextClose]_vars

\* the scheduler runs the wait goroutine and the goroutine inside Close; that
\* the subprocess exits on its own, or that a caller starts an operation, is
\* not promised
FairClose ==
    /\ SpecClose
    /\ WF_vars(WaitReturns)
    /\ WF_vars(WaitSend)
    /\ WF_vars(Close(1))

\* the remote directory Open or Create may find: nothing, the skeleton, the
\* skeleton without its data directory, the skeleton of a repository with a config
Bare == [q \in PathUniverse |-> IF q = << >> THEN DirEntry(MkdirMode) ELSE NoEntry]
OpenStores ==
    { Bare, Skeleton,
      [Skeleton EXCEPT ![Join(CfgPath, PathsData)] = NoEntry],
      [Skeleton EXCEPT ![Join(CfgPath, PathsConfig)] = FileEntry(<< >>, 256, 0)] }

\* before Open or Create: no subprocess, no wait goroutine
InitOpen ==
    /\ work = {}
    /\ limit = 1
    /\ fs \in OpenStores
    /\ InitLife
    /\ proc = "none"
    /\ exitErr = Nil
    /\ waitPc = "none"
    /\ result = << >>
    /\ connClosed = FALSE
    /\ InitCallers
    /\ InitHistory

NextOpen ==
    \/ SessionDies
    \/ \E c \in Configs : OpenBegin(1, c) \/ CreateBegin(1, c)
    \/ StartClient(1) \/ NewClientPipe(1) \/ LayoutStep(1)
    \/ OpenLstat(1) \/ CreateLstat(1) \/ CreateLoop(1)
    \/ mkdirAll(1)
    \/ Close(1)

SpecOpen == InitOpen /\ [][NextOpen]_vars

\* one caller saves Data entries and a snapshot, and lists; the session stays
\* up and every Save's copy completes
ListHandles == DataHandles \cup {Handle(SnapshotFile, NameABC)}

\* the repository List may find: the skeleton, or one whose data or snapshots
\* directory is absent
ListStores ==
    { Skeleton,
      [Skeleton EXCEPT ![Join(CfgPath, PathsData)] = NoEntry],
      [Skeleton EXCEPT ![Join(CfgPath, PathsSnapshots)] = NoEntry] }

InitList ==
    /\ work = ListHandles
    /\ limit = MaxListOps
    /\ fs \in ListStores
    /\ InitLife
    /\ InitSession
    /\ InitCallers
    /\ InitHistory
    /\ exitErr = Nil

NextList ==
    \/ \E h \in work : SaveBegin(1, h, Pattern(MaxLen, 0))
    \/ mkdirAll(1)
    \/ SaveOpen(1) \/ SaveCopy(1) \/ SaveClose(1) \/ SaveLstat(1) \/ SaveChmod(1)
    \/ \E t \in {DataFile, SnapshotFile} : ListBegin(1, t)
    \/ List(1)

SpecList == InitList /\ [][NextList]_vars

\* the scheduler runs the goroutine of List, every ReadDir returns, and the
\* caller goes on receiving until it closes done
FairList == SpecList /\ WF_vars(ListTask(1))

\* one caller saves an entry of up to MaxLen + 1 bytes (a failed copy leaves
\* fewer) and loads ranges of it: every length, every offset around its bounds
LoadHandles == {Handle(DataFile, NameABC)}
LoadPayloads == {Pattern(n, 0) : n \in 0..(MaxLen + 1)}
Lengths == 0..(MaxLen + 2)
Offsets == (0 - 1)..(MaxLen + 2)

InitLoad ==
    /\ work = LoadHandles
    /\ limit = MaxOps
    /\ InitStore
    /\ exitErr = Nil

NextLoad ==
    \/ \E h \in work :
          \/ \E b \in LoadPayloads : SaveBegin(1, h, b)
          \/ \E length \in Lengths, offset \in Offsets : Load(1, h, length, offset)
    \/ mkdirAll(1)
    \/ SaveOpen(1) \/ SaveCopy(1) \/ SaveCopyFail(1)
    \/ SaveClose(1) \/ SaveLstat(1) \/ SaveChmod(1)

SpecLoad == InitLoad /\ [][NextLoad]_vars

\* concurrent callers save empty entries under two names of one shard, on a
\* repository whose shard directory, or whose data directory too, is absent
ShardHandles == {Handle(DataFile, NameABC), Handle(DataFile, NameABD)}
MkdirStores == {Skeleton, [Skeleton EXCEPT ![Join(CfgPath, PathsData)] = NoEntry]}

InitMkdir ==
    /\ work = ShardHandles
    /\ limit = MaxOps
    /\ fs \in MkdirStores
    /\ InitLife
    /\ InitSession
    /\ InitCallers
    /\ InitHistory
    /\ exitErr = Nil

NextMkdir ==
    \E p \in Procs :
        \/ \E h \in work : SaveBegin(p, h, << >>)
        \/ mkdirAll(p)
        \/ SaveOpen(p) \/ SaveClose(p) \/ SaveLstat(p) \/ SaveChmod(p)

SpecMkdir == InitMkdir /\ [][NextMkdir]_vars

\* concurrent callers move their temporary files to the final name of one Data
\* handle, or save that handle, each its own bytes; the session stays up
RenameHandles == {Handle(DataFile, NameABC)}

InitRename ==
    /\ work = RenameHandles
    /\ limit = MaxOps
    /\ InitStore
    /\ exitErr = Nil

NextRename ==
    \E p \in Procs :
        \/ \E h \in work : \/ RenameBegin(p, h, Pattern(MaxLen, p))
                             \/ SaveBegin(p, h, Pattern(MaxLen, p))
        \/ mkdirAll(p)
        \/ renameFile(p)
        \/ SaveOpen(p) \/ SaveCopy(p) \/ SaveCopyFail(p)
        \/ SaveClose(p) \/ SaveLstat(p) \/ SaveChmod(p)

SpecRename == InitRename /\ [][NextRename]_vars

(***************************************************************************)
(* The claims.                                                             *)
(***************************************************************************)
Quiet == \A p \in Procs : pc[p] \in {"idle", "done"}
PastCreate == {"copy", "close", "lstat", "chmod"}
Ok(v) == [NoRet EXCEPT !.val = v]
OkSize(n) == [NoRet EXCEPT !.size = n]
OkFound(b) == [NoRet EXCEPT !.found = b]
Collision == Wrap(ErrFailure, "OpenFile")

\* mode & 0222 # 0
HasWriteBit(mode) == \E k \in {2, 16, 128} : (mode \div k) % 2 = 1

\* C1 (exclusivity): a Save on a handle whose earlier Save succeeded never gets
\* past the exclusive create and returns an error; the stored entry keeps its
\* bytes and its mode, and Load(h, 0, 0) still yields the bytes saved first.
C1_Exclusive ==
    \A p \in Procs :
        (op[p].kind = "Save" /\ chk[p].had.kind = "file") =>
            LET h == op[p].h
            IN  /\ pc[p] \notin PastCreate
                /\ pc[p] = "done" => ret[p].err # Nil
                /\ fs[filename(h)] = chk[p].had
                /\ saved[filename(h)] = chk[p].had.data
                /\ Up => LoadResult(h, 0, 0) = Ok(chk[p].had.data)

\* a second Save with other bytes has failed at the exclusive create
C1_Witness ==
    \E p \in Procs :
        /\ op[p].kind = "Save" /\ pc[p] = "done"
        /\ chk[p].had.kind = "file"
        /\ chk[p].had.data # op[p].data
        /\ ret[p].err = Collision
        /\ Up

\* C2 (concurrent Saves of one handle): whoever is past the exclusive create of
\* a path is the one caller that created the entry there, at most one Save of a
\* handle returns nil, and the entry holds only bytes of its creator: a prefix of
\* them while the creator writes, all of them once its Save has returned nil.
C2_OneWinner ==
    \A h \in work :
        LET q == Filename(h)
            past == {p \in Procs : op[p].kind = "Save" /\ op[p].h = h /\ pc[p] \in PastCreate}
        IN  /\ nsucc[q] <= 1
            /\ \A p \in past : fs[q].kind = "file" /\ fs[q].ino = p
            /\ fs[q].kind = "file" =>
                  /\ intent[q] = Pattern(MaxLen, fs[q].ino)
                  /\ IsPrefix(fs[q].data, intent[q])
            /\ nsucc[q] = 1 =>
                  /\ past = {}
                  /\ fs[q].kind = "file" /\ fs[q].data = saved[q] /\ saved[q] = intent[q]

\* three Saves of one handle overlap: one writes, one has lost the create, one
\* is about to try it
C2_Witness ==
    \E h \in work : \E p1, p2, p3 \in Procs :
        /\ op[p1].h = h /\ op[p2].h = h /\ op[p3].h = h
        /\ pc[p1] = "copy" /\ wr[p1] = 1
        /\ pc[p2] = "done" /\ ret[p2].err = Collision
        /\ pc[p3] = "open"

\* C3 (no partial write survives), as claimed: once no Save is running, an
\* entry Load can open holds all the bytes its Save was given.
C3_NoPartialWrite ==
    \A h \in work :
        (Quiet /\ LoadResult(h, 0, 0).err = Nil) =>
            LoadResult(h, 0, 0).val = intent[filename(h)]

\* C4 (round trip): Save writes where Load, Stat, Test and Remove look, and
\* while the entry of a successful Save(h, b) is not removed Load(h, 0, 0)
\* yields exactly b, Stat its length, Test true.
C4_RoundTrip ==
    \A h \in work :
        Valid(h) = Nil =>
            /\ Filename(h) = filename(h)
            /\ (saved[Filename(h)] # NoData /\ Up) =>
                  /\ LoadResult(h, 0, 0) = Ok(saved[Filename(h)])
                  /\ StatResult(h) = OkSize(Len(saved[Filename(h)]))
                  /\ TestResult(h) = OkFound(TRUE)

\* a Load that followed the Save of a sharded Data name returned its bytes
C4_Witness ==
    /\ op[1] = LoadOp(Handle(DataFile, NameABC), 0, 0)
    /\ pc[1] = "done"
    /\ ret[1] = Ok(Pattern(MaxLen, 1))
    /\ nsucc[filename(Handle(DataFile, NameABC))] = 1

\* C5 (immutability): the entry of a successful Save has no write bit; a Save
\* that finds it fails; Remove of it succeeds while the session is up, and after
\* a Remove that returned nil the entry is gone, Test returns (false, nil) and
\* nothing is left for a new Save to collide with.
C5_Immutable ==
    \A h \in work :
        LET q == filename(h)
        IN  Valid(h) = Nil =>
            /\ saved[q] # NoData => fs[q].kind = "file" /\ ~HasWriteBit(fs[q].mode)
            /\ \A p \in Procs :
                  (op[p].h = h /\ pc[p] = "done") =>
                      /\ (op[p].kind = "Save" /\ chk[p].had.kind = "file") => ret[p].err # Nil
                      /\ (op[p].kind = "Save" /\ ret[p].err = Collision) => fs[q].kind # "none"
                      /\ (op[p].kind = "Remove" /\ chk[p].had.kind = "file") =>
                            ret[p].err \in {Nil, ErrConn, chk[p].err}
                      /\ (op[p].kind = "Remove" /\ ret[p].err = Nil) =>
                            /\ fs[q].kind = "none"
                            /\ Up => TestResult(h) = OkFound(FALSE)

\* Save, Remove, Save on one handle: the second Save succeeded too
C5_Witness ==
    \E h \in work :
        /\ nsucc[filename(h)] = 2
        /\ saved[filename(h)] # NoData
        /\ op[1].kind = "Save" /\ pc[1] = "done" /\ ret[1].err = Nil

\* C8 (a dead subprocess fails fast), as claimed: an operation on a valid handle
\* that begins after the wait goroutine has sent the subprocess's error returns
\* the health check's error and issues no remote request.
C8_FailFast ==
    \A p \in Procs :
        (/\ op[p].kind \in {"Save", "Stat", "Test", "Remove"}
         /\ Valid(op[p].h) = Nil
         /\ chk[p].dead /\ exitErr # Nil) =>
            /\ pc[p] = "done"
            /\ ret[p].err # Nil
            /\ ret[p].err = chk[p].err

\* C6 (shutdown under stall): once the timeout of Close has elapsed with the
\* subprocess still running, Close kills it, drains the exit signal and
\* returns.
C6_StallShutdown == (pc[1] = "kill" /\ proc = "running") ~> (pc[1] = "done")

\* C7 (no double read): Close never waits at its final receive for an exit
\* signal that was deposited and already received by someone else.
C7_NoDoubleRead ==
    \A p \in Procs : pc[p] = "drain" => (result # << >> \/ waitPc # "done")

\* C9 (no orphan): when Open or Create has returned an error, no subprocess
\* it spawned is still running.
C9_NoOrphan ==
    \A p \in Procs :
        (pc[p] = "done" /\ op[p].kind \in {"Open", "Create"} /\ ret[p].err # Nil)
            => proc # "running"

\* C10 (listing completeness): a List(Data) consumed until its channel closes
\* has yielded every saved Data name exactly once, and nothing else.
C10_ListComplete ==
    \A p \in Procs :
        (pc[p] = "done" /\ op[p].kind = "List" /\ op[p].h.Type = DataFile /\ ~done) =>
            \A n \in ListNames :
                out[n] = IF /\ Handle(DataFile, n) \in DataHandles
                            /\ saved[Filename(Handle(DataFile, n))] # NoData
                         THEN 1 ELSE 0

Listing == {"list_first", "list_dirs", "list_entries", "list_send"}
Closed(p) == op[p].kind = "List" /\ pc[p] = "done"
Sent == {n \in ListNames : out[n] > 0}

Entries(path) == IF fs[path].kind = "dir" THEN ReadDirNames(path) ELSE {}

\* what a List of type t has to yield: the entries of every readable shard
\* (Data), the entries of the collection directory (other types)
Listed(t) ==
    LET base == dirname(Handle(t, << >>))
    IN  IF t = DataFile
        THEN UNION {Entries(Join(base, d)) : d \in Entries(base)}
        ELSE Entries(base)

\* C17 (failure absorption): a List consumed to its end has yielded nothing if
\* its directory is absent, and otherwise every entry of every readable shard,
\* whether or not another shard could be read; while it runs, the shards
\* before the current one in the server's order are done and those after it
\* have yielded nothing.
C17_Absorbs ==
    \A p \in Procs :
        LET t == op[p].h.Type
            base == dirname(op[p].h)
        IN  /\ (Closed(p) /\ ~done) => Sent = Listed(t)
            /\ (op[p].kind = "List" /\ t = DataFile /\ pc[p] \in {"list_dirs", "list_send"}) =>
                  \A i \in 1..Len(dirs) :
                      /\ i < idx => Entries(Join(base, dirs[i])) \subseteq Sent
                      /\ i > idx => Entries(Join(base, dirs[i])) \cap Sent = {}

\* a shard that cannot be read was listed before a readable one, whose entry
\* was yielded all the same
C17_Witness ==
    /\ Closed(1) /\ ~done /\ op[1].h.Type = DataFile
    /\ Len(dirs) = 2
    /\ fs[Join(dirname(op[1].h), dirs[1])].kind = "file"
    /\ out[NameCDE] = 1

\* C18 (one-shot sequence): no name is sent twice, a closed List takes no
\* further step, and every List whose caller keeps receiving or closes done
\* closes its channel.
C18_OneShot ==
    /\ [](\A n \in ListNames : out[n] <= 1)
    /\ [](Closed(1) => ~ENABLED ListTask(1))
    /\ (pc[1] \in Listing) ~> Closed(1)

\* a List of three names in two shards was consumed to its end
C18_Witness ==
    /\ Closed(1) /\ ~done
    /\ Cardinality(Sent) = 3
    /\ Len(dirs) = 2

(***************************************************************************)
(* C12: for a valid handle with no entry at its path, on a live session,   *)
(* Test returns (false, nil) and Stat returns an error for which the       *)
(* backend's IsNotExist is true; a Test that returns an error returns      *)
(* false with it.                                                          *)
(***************************************************************************)
Missing(p) ==
    /\ pc[p] = "done"
    /\ Valid(op[p].h) = Nil
    /\ chk[p].err = Nil
    /\ Up
    /\ fs[filename(op[p].h)].kind = "none"

C12_Missing ==
    \A p \in Procs :
        /\ (Missing(p) /\ op[p].kind = "Test") => ret[p] = NoRet
        /\ (Missing(p) /\ op[p].kind = "Stat") => IsNotExist(ret[p].err)
        /\ (pc[p] = "done" /\ op[p].kind = "Test" /\ ret[p].err # Nil) => ~ret[p].found

(***************************************************************************)
(* C13: Save, Load, Stat, Test and Remove called with an invalid handle    *)
(* (the health check passed) return the validation error at once, with no  *)
(* remote request: the call is never at a stage that talks to the server.  *)
(***************************************************************************)
HandleOps == {"Save", "Load", "Stat", "Test", "Remove"}

C13_ValidFirst ==
    \A p \in Procs :
        (op[p].kind \in HandleOps /\ Valid(op[p].h) # Nil /\ chk[p].err = Nil)
            => (pc[p] = "done" /\ ret[p].err = Valid(op[p].h))

\* the same for the three operations that do call h.Valid
C13_Validated ==
    \A p \in Procs :
        (op[p].kind \in {"Save", "Load", "Stat"} /\ Valid(op[p].h) # Nil /\ chk[p].err = Nil)
            => (pc[p] = "done" /\ ret[p].err = Valid(op[p].h))

\* Remove with an invalid handle has removed a directory of the skeleton
C13_Removed ==
    \E p \in Procs :
        /\ op[p].kind = "Remove" /\ Valid(op[p].h) # Nil
        /\ pc[p] = "done" /\ ret[p].err = Nil
        /\ fs[filename(op[p].h)].kind = "none"

(***************************************************************************)
(* C14: when Open or Create has returned a backend, every entry of the     *)
(* remote skeleton exists: the six directories and the config file at the  *)
(* root of the repository.                                                 *)
(***************************************************************************)
Opened(p) == pc[p] = "done" /\ op[p].kind \in {"Open", "Create"} /\ ret[p].err = Nil

SkeletonDirs == {paths(CfgPath)[i] : i \in 1..Len(paths(CfgPath))}

C14_Skeleton ==
    \A p \in Procs :
        Opened(p) => /\ \A d \in SkeletonDirs : fs[d].kind = "dir"
                     /\ fs[Join(CfgPath, PathsConfig)].kind = "file"

\* what Open does check: the root and the six directories answer Lstat
C14_Directories ==
    \A p \in Procs : Opened(p) => \A d \in SkeletonDirs : fs[d].kind # "none"

(***************************************************************************)
(* C15: Load(h, length, offset) of a stored entry of n bytes, with         *)
(* 0 <= offset <= n, read to its end yields the bytes [offset,             *)
(* min(offset + length, n)) when length > 0 and [offset, n) when length is *)
(* 0; a negative offset is an error whatever lies at the path.             *)
(***************************************************************************)
Loaded(p) == pc[p] = "done" /\ op[p].kind = "Load" /\ Valid(op[p].h) = Nil

\* the bytes [from, to) of data, counted from 0
Range(data, from, to) == [i \in 1..(to - from) |-> data[from + i]]

C15_Bounded ==
    \A p \in Procs :
        LET data == fs[filename(op[p].h)].data
            n == Len(data)
            length == op[p].length
            offset == op[p].offset
        IN  /\ (Loaded(p) /\ offset < 0)
                => ret[p] = Fail(NewErr("offset is negative"))
            /\ (Loaded(p) /\ fs[filename(op[p].h)].kind = "file" /\ Up
                    /\ 0 <= offset /\ offset <= n)
                => /\ ret[p].err = Nil
                   /\ ret[p].val = Range(data, offset,
                                         IF length > 0 /\ offset + length < n
                                         THEN offset + length ELSE n)

\* the middle byte of a three-byte entry was read: cut at both ends
C15_Witness ==
    /\ Loaded(1) /\ ret[1].err = Nil
    /\ op[1].length = 1 /\ op[1].offset = 1
    /\ Len(fs[filename(op[1].h)].data) = 3
    /\ ret[1].val = <<fs[filename(op[1].h)].data[2]>>

(***************************************************************************)
(* C16: concurrent mkdirAll calls for one absent directory all succeed: a  *)
(* Save of a Data entry that is past its mkdirAll has not returned any of  *)
(* mkdirAll's errors, and the directory exists.                            *)
(***************************************************************************)
\* the errors mkdirAll returns; Save returns them as they are and wraps all others
MkdirAllErrs == {ErrNotDir, ErrUnable, ErrNotExist, ErrFailure, ErrConn}

Ensuring(p) ==
    /\ op[p].kind = "Save" /\ op[p].h.Type = DataFile
    /\ Valid(op[p].h) = Nil /\ chk[p].err = Nil

C16_Safe ==
    \A p \in Procs :
        (Ensuring(p) /\ pc[p] # "mkdirAll")
            => /\ ~(pc[p] = "done" /\ ret[p].err \in MkdirAllErrs)
               /\ fs[Dir(Filename(op[p].h))].kind = "dir"

\* two callers have both sent Mkdir for the same directory (one of the two
\* requests failed) and both found it at the second Lstat
C16_Witness ==
    /\ Ensuring(1) /\ Ensuring(2)
    /\ pc[1] = "mkdirAll" /\ pc[2] = "mkdirAll"
    /\ Len(stk[1]) = 1 /\ Len(stk[2]) = 1
    /\ Top(1).dir = Top(2).dir
    /\ Top(1).st = "chmod" /\ Top(2).st = "chmod"

(***************************************************************************)
(* C19: mkdirAll terminates: its recursion on the parent path reaches a    *)
(* base case, so the nesting of calls stays within the length of the path  *)
(* (plus the root) and the goroutine's stack never overflows.              *)
(***************************************************************************)
C19_Terminates == \A p \in Procs : pc[p] # "overflow"

\* where the recursion stops descending: mkdirAll on the root calls mkdirAll
\* on the root
C19_SelfCall ==
    \E p \in Procs : \E i \in 1..(Len(stk[p]) - 1) :
        stk[p][i].dir = << >> /\ stk[p][i + 1].dir = << >>

(***************************************************************************)
(* C20: renameFile never replaces an existing destination: a renameFile    *)
(* that began when a stored entry lay at the final path of h fails; of the *)
(* concurrent renameFile and Save calls for one handle at most one         *)
(* succeeds; and the bytes of a stored entry stay what the successful call *)
(* stored.                                                                 *)
(***************************************************************************)
Renamed(p) == pc[p] = "done" /\ op[p].kind = "Rename" /\ ret[p].err = Nil

C20_NoReplace ==
    /\ \A p \in Procs : Renamed(p) => chk[p].had = NoEntry
    /\ \A q \in PathUniverse :
          /\ nsucc[q] <= 1
          /\ saved[q] # NoData => (fs[q].kind = "file" /\ fs[q].data = saved[q])

\* the sequential part: the Lstat guard refuses a destination that exists
C20_Guarded == \A p \in Procs : Renamed(p) => chk[p].had = NoEntry

\* two renameFile calls for the same handle have both returned nil
C20_BothRenamed ==
    /\ Renamed(1) /\ Renamed(2)
    /\ op[1].h = op[2].h

====
